---- MODULE Spec2Model ----
(***************************************************************************)
(* Model of the NDI audio source element (src/src/ndiaudiosrc.rs).         *)
(*                                                                         *)
(* The element's three mutexes (settings, state, timestamp_data), the      *)
(* process-wide receiver registry (hashmap_receivers) and the virtual      *)
(* methods start, stop, set_caps, query, fixate, create, change_state and  *)
(* set_property are modelled.  Every method is cut at the points where it  *)
(* can block: a mutex acquisition or the vendor's capture call.  A         *)
(* method's first acquisition is taken with its call (a thread that waits  *)
(* for it holds nothing yet), except in stop, whose wait for a create in   *)
(* flight is kept.                                                         *)
(*                                                                         *)
(* connect_ndi, stop_ndi and the layout of a registry entry live in the    *)
(* crate root, which is not part of the audited sources; they are          *)
(* modelled after sections 4.1 and 4.2 of the specification.               *)
(***************************************************************************)
EXTENDS Integers, Sequences, FiniteSets, TLC

(***************************************************************************)
(* Bounds of the model.                                                    *)
(***************************************************************************)
NumElems == 2
NumThreads == 2
MaxTimestamp == 1

Elems == 1..NumElems
Threads == 1..NumThreads
NoThread == 0
\* ReceiverId: 0 is the sentinel "unconnected"
Ids == 1..NumElems
\* vendor timestamps a captured frame may carry (100ns ticks)
Timestamps == 0..MaxTimestamp

(***************************************************************************)
(* Program constants.                                                      *)
(***************************************************************************)
SECOND == 1000000000
AudioRate == 48000
NoChannels == 1
NoSamples == 1000
BytesPerSample == 2
DefaultLossThreshold == 5
MinLossThreshold == 0
MaxLossThreshold == 60
DefaultStreamName == "Fixed ndi stream name"
DefaultIp == ""
\* GST_CLOCK_TIME_NONE and GST_BUFFER_OFFSET_NONE (u64::MAX in the framework)
ClockTimeNone == -1
BufferOffsetNone == -1

(***************************************************************************)
(* gst::ClockTime::mul_div_floor: floor(a * b / c) without overflowing     *)
(* the intermediate product (TLC's integers are 32 bits wide).             *)
(***************************************************************************)
MulDivFloor(a, b, c) == (a \div c) * b + ((a % c) * b) \div c

(***************************************************************************)
(* IEEE-754 binary64 arithmetic, as far as create's duration needs it.     *)
(* A natural number is a little-endian sequence of limbs in base 2^15 (no  *)
(* intermediate value leaves 32 bits); a float is a mantissa of at most 53 *)
(* significant bits and a binary exponent: value = mant * 2^exp.           *)
(***************************************************************************)
MantissaBits == 53
LimbBits == 15
LimbBase == 2 ^ LimbBits

RECURSIVE NatToLimbs(_)
NatToLimbs(n) ==
    IF n = 0 THEN <<>> ELSE <<n % LimbBase>> \o NatToLimbs(n \div LimbBase)

RECURSIVE LimbsToNat(_)
LimbsToNat(x) ==
    IF x = <<>> THEN 0 ELSE Head(x) + LimbBase * LimbsToNat(Tail(x))

\* drop the most significant limbs that are zero
RECURSIVE Normalize(_)
Normalize(x) ==
    IF x # <<>> /\ x[Len(x)] = 0 THEN Normalize(SubSeq(x, 1, Len(x) - 1)) ELSE x

\* number of significant bits
BitLen(x) ==
    IF x = <<>> THEN 0
    ELSE LimbBits * (Len(x) - 1)
         + (CHOOSE k \in 1..LimbBits : 2 ^ (k - 1) <= x[Len(x)] /\ x[Len(x)] < 2 ^ k)

\* x * k + carry, for k < 2^15
RECURSIVE LimbsMulSmall(_, _, _)
LimbsMulSmall(x, k, carry) ==
    IF x = <<>> THEN NatToLimbs(carry)
    ELSE LET v == Head(x) * k + carry
         IN  <<v % LimbBase>> \o LimbsMulSmall(Tail(x), k, v \div LimbBase)

\* x divided by d < 2^16, from the most significant limb down:
\* quotient and remainder
RECURSIVE LimbsDivSmall(_, _)
LimbsDivSmall(x, d) ==
    IF x = <<>> THEN [quot |-> <<>>, rem |-> 0]
    ELSE LET hi == LimbsDivSmall(Tail(x), d)
             v  == hi.rem * LimbBase + Head(x)
         IN  [quot |-> <<v \div d>> \o hi.quot, rem |-> v % d]

\* x divided by 2^s: quotient, and whether a non-zero remainder was dropped
LimbsShiftRight(x, s) ==
    LET whole   == s \div LimbBits
        dropped == SubSeq(x, 1, IF whole < Len(x) THEN whole ELSE Len(x))
        r       == LimbsDivSmall(SubSeq(x, whole + 1, Len(x)), 2 ^ (s % LimbBits))
    IN  [quot   |-> Normalize(r.quot),
         sticky |-> r.rem # 0 \/ (\E i \in 1..Len(dropped) : dropped[i] # 0)]

\* x + 1
RECURSIVE LimbsInc(_)
LimbsInc(x) ==
    IF x = <<>> THEN <<1>>
    ELSE IF Head(x) + 1 < LimbBase THEN <<Head(x) + 1>> \o Tail(x)
    ELSE <<0>> \o LimbsInc(Tail(x))

\* round x * 2^exp to nearest, ties to even, to MantissaBits significant
\* bits; sticky tells that the exact value has non-zero bits below x
F64Round(x, exp, sticky) ==
    IF BitLen(x) <= MantissaBits THEN [mant |-> x, exp |-> exp]
    ELSE LET cut   == BitLen(x) - MantissaBits
             g     == LimbsShiftRight(x, cut - 1)
             guard == Head(g.quot) % 2
             keep  == LimbsShiftRight(g.quot, 1).quot
             more  == sticky \/ g.sticky
             up    == guard = 1 /\ (more \/ Head(keep) % 2 = 1)
         IN  [mant |-> IF up THEN LimbsInc(keep) ELSE keep, exp |-> exp + cut]

\* f64::from(n) / f64::from(d) for naturals n < 2^15 and 0 < d < 2^16
F64Div(n, d) ==
    LET limbs == 6
        r     == LimbsDivSmall([i \in 1..limbs |-> 0] \o NatToLimbs(n), d)
    IN  F64Round(Normalize(r.quot), 0 - limbs * LimbBits, r.rem # 0)

\* f * 1_000_000_000.0
F64MulBillion(f) ==
    LET p == LimbsMulSmall(LimbsMulSmall(LimbsMulSmall(f.mant, 1000, 0), 1000, 0), 1000, 0)
    IN  F64Round(p, f.exp, FALSE)

\* f as u64: truncation towards zero (the result must fit 31 bits here)
F64ToU64(f) ==
    IF f.exp >= 0 THEN LimbsToNat(LimbsMulSmall(f.mant, 2 ^ f.exp, 0))
    ELSE LimbsToNat(LimbsShiftRight(f.mant, 0 - f.exp).quot)

\* the buffer size create allocates
BuffSizeStereo == NoSamples * 2 * BytesPerSample
BuffSize == NoSamples * NoChannels * BytesPerSample

\* the duration create stamps on the buffer
CreateDuration == F64ToU64(F64MulBillion(F64Div(NoSamples, AudioRate)))


(***************************************************************************)
(* Values of the model.                                                    *)
(***************************************************************************)
\* Option::None
None == "None"
\* the caps set_caps and fixate may be handed
AudioCaps == "audio/x-raw, format=S16LE, rate=48000, channels=1"
VideoCaps == "video/x-raw"
EmptyCaps == "EMPTY"
\* the values the host writes to the element's properties
StreamNames == {DefaultStreamName}
IpAddresses == {DefaultIp}
LossThresholds == {DefaultLossThreshold}
\* gst::StateChange
Transitions == {"PausedToPlaying", "PlayingToPaused"}
\* gst::QueryView
QueryKinds == {"Scheduling", "Latency", "Other"}

\* the mutexes
SettingsLock(e) == <<"settings", e>>
StateLock(e) == <<"state", e>>
TimestampLock(e) == <<"timestamp_data", e>>
RegistryLock == <<"hashmap_receivers", 0>>
Locks ==
    {RegistryLock}
    \cup {SettingsLock(e) : e \in Elems}
    \cup {StateLock(e) : e \in Elems}
    \cup {TimestampLock(e) : e \in Elems}

\* impl Default for Settings
DefaultSettings ==
    [stream_name    |-> DefaultStreamName,
     ip             |-> DefaultIp,
     loss_threshold |-> DefaultLossThreshold,
     id_receiver    |-> 0,
     latency        |-> ClockTimeNone]

\* (a State that is born with a format)
StateWithFormat == [info |-> AudioCaps]

\* impl Default for State
DefaultState == [info |-> None]

\* gst_audio::AudioInfo::from_caps
AudioInfoFromCaps(caps) == IF caps = AudioCaps THEN caps ELSE None

\* the locals of a method: the frame-sync handle it took from the registry
\* (named by the id of its entry) and the timestamp of its audio_frame
\* (NDIlib_audio_frame_v2_t::default() has timestamp 0)
NoLocal == [fs |-> 0, timestamp |-> 0]

\* a gst::Buffer as allocated: nothing is stamped on it
NewBuffer(size) ==
    [size |-> size, pts |-> ClockTimeNone, duration |-> ClockTimeNone,
     offset |-> BufferOffsetNone, offset_end |-> BufferOffsetNone]

\* what a call returned: its return value, and the buffer if it made one
Returned(ret) == [ret |-> ret, buffer |-> NewBuffer(0)]

\* no call has returned in the last step
NoReturn ==
    [op |-> None, ret |-> None, buffer |-> NewBuffer(0), log |-> <<>>]

VARIABLES
    settings,           \* element -> Settings (behind the settings mutex)
    state,              \* element -> State (behind the state mutex)
    timestamp_data,     \* element -> TimestampData
    hashmap_receivers,  \* the registry: live receiver id -> its entry
    owner,              \* mutex -> the thread holding it, or NoThread
    poisoned,           \* the mutexes a panicking thread held
    panicked,           \* element -> a method of it has panicked
    lifecycle,          \* element -> what the base class has called
    fixated,            \* element -> fixate has returned since its start
    pc,                 \* thread -> where it is in its method
    elem,               \* thread -> the element its method runs on
    local,              \* thread -> the locals of its method
    log,                \* thread -> what its call has done so far
    returned            \* the call that returned in the last step, if one did

vars ==
    <<settings, state, timestamp_data, hashmap_receivers, owner, poisoned,
      panicked, lifecycle, fixated, pc, elem, local, log, returned>>

elementVars == <<settings, state, timestamp_data>>

(***************************************************************************)
(* NdiAudioSrc::new, and the framework before any method was called        *)
(***************************************************************************)
Init ==
    /\ settings = [e \in Elems |-> DefaultSettings]
    /\ state = [e \in Elems |-> DefaultState]
    /\ timestamp_data = [e \in Elems |-> [offset |-> 0]]
    /\ hashmap_receivers = [id \in {} |-> 0]
    /\ owner = [l \in Locks |-> NoThread]
    /\ poisoned = {}
    /\ panicked = [e \in Elems |-> FALSE]
    /\ lifecycle = [e \in Elems |-> "stopped"]
    /\ fixated = [e \in Elems |-> FALSE]
    /\ pc = [t \in Threads |-> "idle"]
    /\ elem = [t \in Threads |-> 1]
    /\ local = [t \in Threads |-> NoLocal]
    /\ log = [t \in Threads |-> <<>>]
    /\ returned = NoReturn

(***************************************************************************)
(* std::sync::Mutex, and the calls of the host's threads                   *)
(***************************************************************************)
HeldBy(t) == {l \in Locks : owner[l] = t}

\* lock() returns once no thread holds the mutex
CanLock(l) == owner[l] = NoThread

\* the guards a returning or unwinding thread drops
Dropped(t) == [l \in Locks |-> IF owner[l] = t THEN NoThread ELSE owner[l]]

\* no method has panicked
NoPanic == \A e \in Elems : ~panicked[e]

\* thread t stands at label of its method
At(t, label) == NoPanic /\ pc[t] = label

\* thread t may call a method of element e. The host's threads are
\* interchangeable: a call is given to the first thread that is free.
Call(t, e) ==
    /\ At(t, "idle")
    /\ \A u \in Threads : u < t => pc[u] # "idle"

\* thread t goes on in its method on element e, to label, holding locks
\* in addition; events is what the call has done so far
Goto(t, e, label, locks, loc, events) ==
    /\ pc' = [pc EXCEPT ![t] = label]
    /\ elem' = [elem EXCEPT ![t] = e]
    /\ owner' = [l \in Locks |-> IF l \in locks THEN t ELSE owner[l]]
    /\ local' = [local EXCEPT ![t] = loc]
    /\ log' = [log EXCEPT ![t] = events]
    /\ returned' = NoReturn
    /\ UNCHANGED <<poisoned, panicked>>

\* the call of thread t leaves its method; every guard it holds is dropped
Leave(t, o, res, events) ==
    /\ pc' = [pc EXCEPT ![t] = "idle"]
    /\ elem' = [elem EXCEPT ![t] = 1]
    /\ owner' = Dropped(t)
    /\ local' = [local EXCEPT ![t] = NoLocal]
    /\ log' = [log EXCEPT ![t] = <<>>]
    /\ returned' = [op |-> o, ret |-> res.ret, buffer |-> res.buffer,
                    log |-> events]

\* method o returns res
Return(t, o, res, events) ==
    /\ Leave(t, o, res, events)
    /\ UNCHANGED <<poisoned, panicked>>

\* an unwrap() fails in method o of element e, which holds the mutexes in
\* held: the unwinding drops the guards, which poisons their mutexes, and
\* the framework's panic handler marks the element
Panic(t, e, o, held, events) ==
    /\ Leave(t, o, Returned("Panic"), events)
    /\ poisoned' = poisoned \cup held
    /\ panicked' = [panicked EXCEPT ![e] = TRUE]

(***************************************************************************)
(* The receiver registry and the connection manager (crate root).          *)
(***************************************************************************)
\* the live entries of a stream identity
Matching(name, ip) ==
    {id \in DOMAIN hashmap_receivers :
        /\ hashmap_receivers[id].stream_name = name
        /\ hashmap_receivers[id].ip = ip}

\* a new entry: no baseline yet, one reference
NewEntry(name, ip) ==
    [stream_name |-> name, ip |-> ip, initial_timestamp |-> 0,
     reference_count |-> 1]

\* Registry.acquire: what it may return, and the registry it leaves
Acquire(name, ip) ==
    IF Matching(name, ip) # {}
    THEN {[id |-> id,
           receivers |-> [hashmap_receivers EXCEPT
                            ![id].reference_count = @ + 1]] :
            id \in Matching(name, ip)}
    ELSE {[id |-> id,
           receivers |-> [i \in DOMAIN hashmap_receivers \cup {id} |->
                            IF i = id THEN NewEntry(name, ip)
                            ELSE hashmap_receivers[i]]] :
            id \in Ids \ DOMAIN hashmap_receivers}

\* connect_ndi: the source is not found (id 0), or it is and the receiver
\* is acquired
ConnectNdi(ip, name) ==
    {[id |-> 0, receivers |-> hashmap_receivers]} \cup Acquire(name, ip)

\* stop_ndi / Registry.release: the last reference tears the entry down; an
\* id that is not in the registry is left alone
StopNdi(id) ==
    IF id \in DOMAIN hashmap_receivers
    THEN IF hashmap_receivers[id].reference_count > 1
         THEN [hashmap_receivers EXCEPT ![id].reference_count = @ - 1]
         ELSE [i \in DOMAIN hashmap_receivers \ {id} |-> hashmap_receivers[i]]
    ELSE hashmap_receivers

(***************************************************************************)
(* BaseSrcImpl::start                                                      *)
(***************************************************************************)
\* *self.state.lock().unwrap() = Default::default();
StartBegin(t, e) ==
    /\ Call(t, e)
    /\ lifecycle[e] = "stopped"
    /\ CanLock(StateLock(e))
    /\ state' = [state EXCEPT ![e] = DefaultState]
    /\ lifecycle' = [lifecycle EXCEPT ![e] = "starting"]
    /\ Goto(t, e, "start_settings", {}, NoLocal, <<>>)
    /\ UNCHANGED <<settings, timestamp_data, hashmap_receivers, fixated>>

\* let mut settings = self.settings.lock().unwrap();
StartLockSettings(t) ==
    LET e == elem[t] IN
    /\ At(t, "start_settings")
    /\ CanLock(SettingsLock(e))
    /\ Goto(t, e, "start_connect", {SettingsLock(e)}, NoLocal, log[t])
    /\ UNCHANGED <<elementVars, hashmap_receivers, lifecycle, fixated>>

\* what start answers for the id connect_ndi returned
StartResultInverted(id) == IF id = 0 THEN "Ok" ELSE "NotFound"
StartResult(id) == IF id = 0 THEN "NotFound" ELSE "Ok"

\* settings.id_receiver = connect_ndi(.., &settings.ip.clone(),
\*     &settings.stream_name.clone()); match settings.id_receiver {..}
\* (connect_ndi takes the registry's mutex once the source is found)
StartConnect(t) ==
    LET e == elem[t] IN
    /\ At(t, "start_connect")
    /\ \E c \in ConnectNdi(settings[e].ip, settings[e].stream_name) :
        /\ c.id # 0 => CanLock(RegistryLock)
        /\ hashmap_receivers' = c.receivers
        /\ settings' = [settings EXCEPT ![e].id_receiver = c.id]
        /\ lifecycle' = [lifecycle EXCEPT
                           ![e] = IF StartResult(c.id) = "Ok" THEN "started"
                                  ELSE "stopped"]
        /\ Return(t, "start", Returned(StartResult(c.id)),
                  Append(log[t], <<"connect_ndi", c.id>>))
    /\ UNCHANGED <<state, timestamp_data, fixated>>

(***************************************************************************)
(* BaseSrcImpl::stop                                                       *)
(***************************************************************************)
\* the base class calls stop
StopBegin(t, e) ==
    /\ Call(t, e)
    /\ lifecycle[e] = "started"
    /\ lifecycle' = [lifecycle EXCEPT ![e] = "stopping"]
    /\ Goto(t, e, "stop_state", {}, NoLocal, <<>>)
    /\ UNCHANGED <<elementVars, hashmap_receivers, fixated>>

\* *self.state.lock().unwrap() = Default::default();
StopResetState(t) ==
    LET e == elem[t] IN
    /\ At(t, "stop_state")
    /\ CanLock(StateLock(e))
    /\ state' = [state EXCEPT ![e] = DefaultState]
    /\ Goto(t, e, "stop_settings", {}, NoLocal, log[t])
    /\ UNCHANGED <<settings, timestamp_data, hashmap_receivers,
                   lifecycle, fixated>>

\* let settings = self.settings.lock().unwrap();
StopLockSettings(t) ==
    LET e == elem[t] IN
    /\ At(t, "stop_settings")
    /\ CanLock(SettingsLock(e))
    /\ Goto(t, e, "stop_ndi", {SettingsLock(e)}, NoLocal, log[t])
    /\ UNCHANGED <<elementVars, hashmap_receivers, lifecycle, fixated>>

\* (a stop that returns without stop_ndi)
StopWithoutDisconnect(t) ==
    /\ At(t, "stop_ndi")
    /\ lifecycle' = [lifecycle EXCEPT ![elem[t]] = "stopped"]
    /\ Return(t, "stop", Returned("Ok"), log[t])
    /\ fixated' = [fixated EXCEPT ![elem[t]] = FALSE]
    /\ UNCHANGED <<elementVars, hashmap_receivers>>

\* stop_ndi(self.cat, element, settings.id_receiver); Ok(())
\* (stop_ndi takes the registry's mutex)
StopDisconnect(t) ==
    LET e == elem[t] IN
    /\ At(t, "stop_ndi")
    /\ CanLock(RegistryLock)
    /\ hashmap_receivers' = StopNdi(settings[e].id_receiver)
    /\ lifecycle' = [lifecycle EXCEPT ![e] = "stopped"]
    /\ fixated' = [fixated EXCEPT ![e] = FALSE]
    /\ Return(t, "stop", Returned("Ok"),
              Append(log[t], <<"stop_ndi", settings[e].id_receiver>>))
    /\ UNCHANGED elementVars

(***************************************************************************)
(* BaseSrcImpl::set_caps                                                   *)
(***************************************************************************)
\* (the base class negotiates on a started element: it has the element
\* fixate the caps and hands the fixated caps to set_caps)
SetCaps(t, e, caps) ==
    /\ Call(t, e)
    /\ lifecycle[e] = "started"
    /\ fixated[e]
    /\ IF AudioInfoFromCaps(caps) = None
       THEN /\ Return(t, "set_caps", Returned("Err"), <<>>)
            /\ UNCHANGED state
       ELSE /\ CanLock(StateLock(e))
            /\ state' = [state EXCEPT ![e].info = AudioInfoFromCaps(caps)]
            /\ Return(t, "set_caps", Returned("Ok"), <<>>)
    /\ UNCHANGED <<settings, timestamp_data, hashmap_receivers,
                   lifecycle, fixated>>

(***************************************************************************)
(* ObjectImpl::set_property                                                *)
(***************************************************************************)
SetProperty(t, e, prop, value) ==
    /\ Call(t, e)
    /\ CanLock(SettingsLock(e))
    /\ settings' = [settings EXCEPT ![e][prop] = value]
    /\ Return(t, "set_property", Returned("Ok"), <<<<prop, value>>>>)
    /\ UNCHANGED <<state, timestamp_data, hashmap_receivers,
                   lifecycle, fixated>>

SetStreamName(t, e) ==
    \E value \in StreamNames : SetProperty(t, e, "stream_name", value)

SetIp(t, e) ==
    \E value \in IpAddresses : SetProperty(t, e, "ip", value)

\* (a property without a range)
AnyLossThreshold(value) == TRUE

\* glib::ParamSpec::uint("loss-threshold", .., 0, 60, 5, ..): the values the
\* object system hands to set_property
ValidLossThreshold(value) ==
    value \in MinLossThreshold..MaxLossThreshold

\* the host sets loss-threshold to value: a value outside the declared
\* range is refused by the object system and set_property is not called
SetLossThresholdTo(t, e, value) ==
    IF ValidLossThreshold(value)
    THEN SetProperty(t, e, "loss_threshold", value)
    ELSE /\ Call(t, e)
         /\ Return(t, "set_property", Returned("Rejected"),
                   <<<<"loss_threshold", value>>>>)
         /\ UNCHANGED <<elementVars, hashmap_receivers, lifecycle, fixated>>

SetLossThreshold(t, e) ==
    \E value \in LossThresholds : SetLossThresholdTo(t, e, value)

(***************************************************************************)
(* BaseSrcImpl::query                                                      *)
(***************************************************************************)
\* a scheduling query is answered at once, any other query but the latency
\* query by the base class;
\* let settings = &*self.settings.lock().unwrap();
QueryBegin(t, e, kind) ==
    /\ Call(t, e)
    /\ IF kind = "Scheduling"
       THEN Return(t, "query", Returned("true"), <<>>)
       ELSE IF kind = "Latency"
       THEN /\ CanLock(SettingsLock(e))
            /\ Goto(t, e, "query_state", {SettingsLock(e)}, NoLocal, <<>>)
       ELSE Return(t, "query", Returned("parent_query"), <<>>)
    /\ UNCHANGED <<elementVars, hashmap_receivers, lifecycle, fixated>>

\* let state = self.state.lock().unwrap();
\* if let Some(ref _info) = state.info { settings.latency.unwrap() ..
QueryLatency(t) ==
    LET e == elem[t] IN
    /\ At(t, "query_state")
    /\ CanLock(StateLock(e))
    /\ IF state[e].info = None
       THEN Return(t, "query", Returned("false"), log[t])
       ELSE IF settings[e].latency = ClockTimeNone
       THEN Panic(t, e, "query", HeldBy(t) \cup {StateLock(e)}, log[t])
       ELSE Return(t, "query", Returned("true"),
                   <<<<"latency", settings[e].latency>>>>)
    /\ UNCHANGED <<elementVars, hashmap_receivers, lifecycle, fixated>>

(***************************************************************************)
(* The vendor's frame-sync: NDIlib_framesync_capture_audio always returns, *)
(* with a frame that carries the vendor's timestamp.                       *)
(***************************************************************************)
Frames == [timestamp : Timestamps]

\* what a call leaves in its log
LookedUp == <<"registry">>
Captured == <<"capture_audio">>
Freed == <<"free_audio">>
\* the capture came back without audio: the frame-sync had none in time
CapturedNothing == <<"capture_audio", "no_frame">>

(***************************************************************************)
(* BaseSrcImpl::fixate                                                     *)
(***************************************************************************)
\* let receivers = hashmap_receivers.lock().unwrap();
FixateBegin(t, e) ==
    /\ Call(t, e)
    /\ lifecycle[e] = "started"
    /\ CanLock(RegistryLock)
    /\ Goto(t, e, "fixate_settings", {RegistryLock}, NoLocal, <<>>)
    /\ UNCHANGED <<elementVars, hashmap_receivers, lifecycle, fixated>>

\* let mut settings = self.settings.lock().unwrap();
\* let receiver = receivers.get(&settings.id_receiver).unwrap();
\* .. NDIlib_framesync_capture_audio(pNDI_fs, ..) is entered
FixateLockSettings(t) ==
    LET e == elem[t] IN
    /\ At(t, "fixate_settings")
    /\ CanLock(SettingsLock(e))
    /\ IF settings[e].id_receiver \notin DOMAIN hashmap_receivers
       THEN Panic(t, e, "fixate", HeldBy(t) \cup {SettingsLock(e)}, log[t])
       ELSE Goto(t, e, "fixate_capture", {SettingsLock(e)},
                 [local[t] EXCEPT !.fs = settings[e].id_receiver],
                 Append(log[t], LookedUp))
    /\ UNCHANGED <<elementVars, hashmap_receivers, lifecycle, fixated>>

\* NDIlib_framesync_capture_audio returns (fixate reads nothing of the frame)
FixateCapture(t) ==
    /\ At(t, "fixate_capture")
    /\ \E frame \in Frames :
        Goto(t, elem[t], "fixate_frame", {}, local[t], Append(log[t], Captured))
    /\ UNCHANGED <<elementVars, hashmap_receivers, lifecycle, fixated>>

\* (a fixate that stores no latency)
FixateLatencyUnset == ClockTimeNone

\* the latency fixate stores
FixateLatency == MulDivFloor(SECOND, NoSamples, AudioRate)

\* settings.latency = ..; caps.get_mut_structure(0).unwrap(); ..
\* post_message(latency); NDIlib_framesync_free_audio; parent_fixate.
\* The caps handed to fixate are read here for the first time.
FixateFinish(t) ==
    LET e == elem[t] IN
    /\ At(t, "fixate_frame")
    /\ settings' = [settings EXCEPT ![e].latency = FixateLatency]
    /\ \E caps \in {AudioCaps, EmptyCaps} :
        IF caps = EmptyCaps
        THEN /\ Panic(t, e, "fixate", HeldBy(t), log[t])
             /\ UNCHANGED fixated
        ELSE /\ Return(t, "fixate", Returned("parent_fixate"),
                       log[t] \o <<<<"post_message">>, Freed>>)
             /\ fixated' = [fixated EXCEPT ![e] = TRUE]
    /\ UNCHANGED <<state, timestamp_data, hashmap_receivers, lifecycle>>

(***************************************************************************)
(* ElementImpl::change_state                                               *)
(***************************************************************************)
\* if transition == PausedToPlaying { let mut receivers = ..lock().unwrap();
ChangeStateBegin(t, e, transition) ==
    /\ Call(t, e)
    /\ IF transition # "PausedToPlaying"
       THEN Return(t, "change_state", Returned("parent_change_state"), <<>>)
       ELSE /\ lifecycle[e] = "started"
            /\ CanLock(RegistryLock)
            /\ Goto(t, e, "change_state_settings", {RegistryLock}, NoLocal, <<>>)
    /\ UNCHANGED <<elementVars, hashmap_receivers, lifecycle, fixated>>

\* let settings = self.settings.lock().unwrap();
\* let receiver = receivers.get_mut(&settings.id_receiver).unwrap();
\* .. NDIlib_framesync_capture_audio(pNDI_fs, ..) is entered
ChangeStateLockSettings(t) ==
    LET e == elem[t] IN
    /\ At(t, "change_state_settings")
    /\ CanLock(SettingsLock(e))
    /\ IF settings[e].id_receiver \notin DOMAIN hashmap_receivers
       THEN Panic(t, e, "change_state", HeldBy(t) \cup {SettingsLock(e)}, log[t])
       ELSE Goto(t, e, "change_state_capture", {SettingsLock(e)},
                 [local[t] EXCEPT !.fs = settings[e].id_receiver],
                 Append(log[t], LookedUp))
    /\ UNCHANGED <<elementVars, hashmap_receivers, lifecycle, fixated>>

\* NDIlib_framesync_capture_audio returns
ChangeStateCapture(t) ==
    /\ At(t, "change_state_capture")
    /\ \E frame \in Frames :
        Goto(t, elem[t], "change_state_frame", {},
             [local[t] EXCEPT !.timestamp = frame.timestamp],
             Append(log[t], Captured))
    /\ UNCHANGED <<elementVars, hashmap_receivers, lifecycle, fixated>>

\* the baseline the registry entry keeps when a frame stamped timestamp
\* was captured
InitialTimestamp(stored, timestamp) ==
    IF stored <= timestamp \/ stored = 0 THEN timestamp ELSE stored

\* if receiver.initial_timestamp <= .. { .. }; NDIlib_framesync_free_audio;
\* self.parent_change_state(element, transition)
ChangeStateFinish(t) ==
    /\ At(t, "change_state_frame")
    /\ hashmap_receivers' =
         [hashmap_receivers EXCEPT ![local[t].fs].initial_timestamp =
             InitialTimestamp(@, local[t].timestamp)]
    /\ Return(t, "change_state", Returned("parent_change_state"),
              Append(log[t], Freed))
    /\ UNCHANGED <<elementVars, lifecycle, fixated>>

(***************************************************************************)
(* BaseSrcImpl::create                                                     *)
(***************************************************************************)
\* let _settings = &*self.settings.lock().unwrap();
\* (the guard lives as long as the reference: to the end of create)
CreateBegin(t, e) ==
    /\ Call(t, e)
    /\ lifecycle[e] = "started"
    /\ CanLock(SettingsLock(e))
    /\ Goto(t, e, "create_timestamp_data", {SettingsLock(e)}, NoLocal, <<>>)
    /\ UNCHANGED <<elementVars, hashmap_receivers, lifecycle, fixated>>

\* let mut timestamp_data = self.timestamp_data.lock().unwrap();
CreateLockTimestampData(t) ==
    LET e == elem[t] IN
    /\ At(t, "create_timestamp_data")
    /\ CanLock(TimestampLock(e))
    /\ Goto(t, e, "create_state", {TimestampLock(e)}, local[t], log[t])
    /\ UNCHANGED <<elementVars, hashmap_receivers, lifecycle, fixated>>

\* whether create goes on to capture with this negotiated format
HasCapsAlways(info) == TRUE
HasCaps(info) == info # None

\* let state = self.state.lock().unwrap();
\* let _info = match state.info { None => { gst_element_error!(..);
\*     return Err(gst::FlowError::NotNegotiated); } .. };
CreateLockState(t) ==
    LET e == elem[t] IN
    /\ At(t, "create_state")
    /\ CanLock(StateLock(e))
    /\ IF ~HasCaps(state[e].info)
       THEN Return(t, "create", Returned("NotNegotiated"),
                   Append(log[t], <<"post_error", "Negotiation">>))
       ELSE Goto(t, e, "create_registry", {StateLock(e)}, local[t], log[t])
    /\ UNCHANGED <<elementVars, hashmap_receivers, lifecycle, fixated>>

\* let receivers = hashmap_receivers.lock().unwrap();
\* let recv = &receivers.get(&_settings.id_receiver).unwrap().ndi_instance;
\* .. NDIlib_framesync_capture_audio(pNDI_fs, ..) is entered
CreateLockRegistry(t) ==
    LET e == elem[t] IN
    /\ At(t, "create_registry")
    /\ CanLock(RegistryLock)
    /\ IF settings[e].id_receiver \notin DOMAIN hashmap_receivers
       THEN Panic(t, e, "create", HeldBy(t) \cup {RegistryLock}, log[t])
       ELSE Goto(t, e, "create_capture", {RegistryLock},
                 [local[t] EXCEPT !.fs = settings[e].id_receiver],
                 Append(log[t], LookedUp))
    /\ UNCHANGED <<elementVars, hashmap_receivers, lifecycle, fixated>>

\* (a create whose guards end with the capture)
CreateCaptureDropsGuards(t) ==
    /\ At(t, "create_capture")
    /\ pc' = [pc EXCEPT ![t] = "create_frame"]
    /\ owner' = Dropped(t)
    /\ log' = [log EXCEPT ![t] = Append(log[t], Captured)]
    /\ returned' = NoReturn
    /\ UNCHANGED <<elementVars, hashmap_receivers, lifecycle, fixated, poisoned,
                   panicked, elem, local>>

\* NDIlib_framesync_capture_audio returns (create reads nothing of the
\* frame but its samples, which the conversion copies)
CreateCapture(t) ==
    /\ At(t, "create_capture")
    /\ \E frame \in Frames, captured \in {Captured, CapturedNothing} :
        Goto(t, elem[t], "create_frame", {}, local[t],
             Append(log[t], captured))
    /\ UNCHANGED <<elementVars, hashmap_receivers, lifecycle, fixated>>

\* what gst::Buffer::with_size and map_writable may answer
Allocations == {"ok", "no_memory", "not_writable"}

\* the buffer create returns: buffer.set_duration(duration) is all that is
\* stamped; the samples are converted into it
CreateBuffer == [NewBuffer(BuffSize) EXCEPT !.duration = CreateDuration]

\* (a create that fails when the capture brought no audio)
CreateResultNeedsFrame(events) ==
    IF events[Len(events)] = CapturedNothing THEN "Error" ELSE "Ok"

\* Ok(buffer): create does not look at what the capture brought
CreateResult(events) == "Ok"

\* gst::Buffer::with_size(buff_size).unwrap(); buffer.set_duration(..);
\* buffer.map_writable().unwrap(); NDIlib_util_audio_to_interleaved_16s_v2;
\* NDIlib_framesync_free_audio; Ok(buffer)
CreateFinish(t) ==
    LET e == elem[t] IN
    /\ At(t, "create_frame")
    /\ \E allocation \in Allocations :
        IF allocation # "ok"
        THEN Panic(t, e, "create", HeldBy(t), log[t])
        ELSE Return(t, "create",
                    [ret |-> CreateResult(log[t]), buffer |-> CreateBuffer],
                    Append(log[t], Freed))
    /\ UNCHANGED <<elementVars, hashmap_receivers, lifecycle, fixated>>

(***************************************************************************)
(* The specification: the host calls the methods from its threads. A panic *)
(* is fatal to the element and, through the poisoned registry, to the      *)
(* pipeline: the model follows the program up to its first panic.          *)
(***************************************************************************)
Next ==
    \E t \in Threads :
    \/ \E e \in Elems : StartBegin(t, e)
    \/ StartLockSettings(t)
    \/ StartConnect(t)
    \/ \E e \in Elems : StopBegin(t, e)
    \/ StopResetState(t)
    \/ StopLockSettings(t)
    \/ StopDisconnect(t)
    \/ \E e \in Elems, caps \in {AudioCaps, VideoCaps} : SetCaps(t, e, caps)
    \/ \E e \in Elems : SetStreamName(t, e)
    \/ \E e \in Elems : SetIp(t, e)
    \/ \E e \in Elems : SetLossThreshold(t, e)
    \/ \E e \in Elems, kind \in QueryKinds : QueryBegin(t, e, kind)
    \/ QueryLatency(t)
    \/ \E e \in Elems : FixateBegin(t, e)
    \/ FixateLockSettings(t)
    \/ FixateCapture(t)
    \/ FixateFinish(t)
    \/ \E e \in Elems, transition \in Transitions :
           ChangeStateBegin(t, e, transition)
    \/ ChangeStateLockSettings(t)
    \/ ChangeStateCapture(t)
    \/ ChangeStateFinish(t)
    \/ \E e \in Elems : CreateBegin(t, e)
    \/ CreateLockTimestampData(t)
    \/ CreateLockState(t)
    \/ CreateLockRegistry(t)
    \/ CreateCapture(t)
    \/ CreateFinish(t)

Spec == Init /\ [][Next]_vars

(***************************************************************************)
(* Properties.  A call is observed in the step that ends it: returned     *)
(* holds the method, its result and the calls it made.                     *)
(***************************************************************************)
\* thread t ends its call in this step, which it began at label
Ends(t, label) == pc[t] = label /\ pc'[t] = "idle"

\* how many times a call that made events made the vendor or registry
\* call named name
Count(events, name) ==
    Cardinality({i \in 1..Len(events) : events[i][1] = name})

\* thread t is in create between its capture and the release of the frame
InCreateCapture(t) == pc[t] \in {"create_capture", "create_frame"}

\* thread t is inside NDIlib_framesync_capture_audio
InCapture(t) ==
    pc[t] \in {"change_state_capture", "fixate_capture", "create_capture"}

\* C1: start stores the id connect returned for the element's ip and
\* stream_name in settings.id_receiver; it returns the resource-not-found
\* error exactly when that id is 0 and succeeds for every other id.
C1_StartStoresIdAndFailsOnZero ==
    [][\A t \in Threads :
        Ends(t, "start_connect") =>
            LET e == elem[t]
                id == settings'[e].id_receiver IN
            /\ returned'.op = "start"
            /\ returned'.log = <<<<"connect_ndi", id>>>>
            /\ returned'.ret = "NotFound" <=> id = 0
            /\ id # 0 => /\ returned'.ret = "Ok"
                         /\ id \in DOMAIN hashmap_receivers'
                         /\ hashmap_receivers'[id].ip = settings[e].ip
                         /\ hashmap_receivers'[id].stream_name =
                                settings[e].stream_name]_vars

\* a start has failed because connect found no source
C1_Witness ==
    /\ returned.op = "start"
    /\ returned.ret = "NotFound"
    /\ returned.log = <<<<"connect_ndi", 0>>>>

\* C2: after every stop the negotiated format is empty, settings.id_receiver
\* is 0, and disconnect was called once, with the id stored before the stop.
C2_StopClearsFormatAndId ==
    [][\A t \in Threads :
        Ends(t, "stop_ndi") =>
            LET e == elem[t] IN
            /\ state'[e].info = None
            /\ settings'[e].id_receiver = 0
            /\ returned'.log = <<<<"stop_ndi", settings[e].id_receiver>>>>]_vars

\* C3: a create that finds the negotiated format empty returns
\* NotNegotiated, posts a negotiation error and neither captures nor touches
\* the registry; create never stands at or past its capture with the format
\* empty.
C3_CreateNeedsFormat ==
    /\ [](\A t \in Threads :
            InCreateCapture(t) => state[elem[t]].info # None)
    /\ [][\A t \in Threads :
            (/\ pc[t] = "create_state"
             /\ pc'[t] # "create_state"
             /\ state[elem[t]].info = None) =>
                /\ pc'[t] = "idle"
                /\ returned'.op = "create"
                /\ returned'.ret = "NotNegotiated"
                /\ returned'.log = <<<<"post_error", "Negotiation">>>>
                /\ hashmap_receivers' = hashmap_receivers
                /\ owner'[RegistryLock] = owner[RegistryLock]]_vars

\* a create has returned NotNegotiated
C3_Witness ==
    /\ returned.op = "create"
    /\ returned.ret = "NotNegotiated"

\* C4: change_state, fixate and create release every frame they captured
\* exactly once before they exit, whichever way they exit.
C4_FramesReleasedOnEveryExit ==
    returned.op \in {"change_state", "fixate", "create"} =>
        /\ Count(returned.log, "free_audio") =
               Count(returned.log, "capture_audio")
        /\ Count(returned.log, "capture_audio") <= 1

\* C5: no thread holds the registry's mutex while it is inside a capture.
C5_RegistryFreeDuringCapture ==
    \A t \in Threads : InCapture(t) => owner[RegistryLock] # t

\* C6: a stop of the element never releases the receiver reference between
\* the capture of a create in flight on that element and the release of its
\* frame, and the receiver whose frame-sync the create uses is still in the
\* registry all that time.
C6_StopWaitsForCreate ==
    /\ [](\A t \in Threads :
            InCreateCapture(t) => local[t].fs \in DOMAIN hashmap_receivers)
    /\ [][\A t, u \in Threads :
            InCreateCapture(t) /\ elem[u] = elem[t] =>
                ~Ends(u, "stop_ndi")]_vars

\* a stop of the element waits while a create holds a captured frame
C6_Witness ==
    \E t, u \in Threads :
        /\ pc[t] = "create_frame"
        /\ pc[u] = "stop_state"
        /\ elem[u] = elem[t]

\* the mutex thread t waits for, when it stands at an acquisition that the
\* method itself makes while it already holds a guard (<<"none", 0>>: no
\* such wait; the acquisitions inside connect_ndi and stop_ndi are left out)
Wanted(t) ==
    LET e == elem[t] IN
    CASE pc[t] = "query_state" -> StateLock(e)
      [] pc[t] = "fixate_settings" -> SettingsLock(e)
      [] pc[t] = "change_state_settings" -> SettingsLock(e)
      [] pc[t] = "create_timestamp_data" -> TimestampLock(e)
      [] pc[t] = "create_state" -> StateLock(e)
      [] pc[t] = "create_registry" -> RegistryLock
      [] OTHER -> <<"none", 0>>

\* thread t waits for a mutex that thread u holds
WaitsFor(t, u) == Wanted(t) \in Locks /\ owner[Wanted(t)] = u

\* C7: no two threads each hold a mutex and wait for one the other holds,
\* so that every call returns.
C7_NoCircularWait ==
    \A t, u \in Threads : ~(t # u /\ WaitsFor(t, u) /\ WaitsFor(u, t))

\* C8: the buffer of a successful create carries the presentation time
\* sample_offset * SECOND / sample_rate (floor) of the element's offset.
C8_PtsFromSampleOffset ==
    [][\A t \in Threads :
        Ends(t, "create_frame") /\ returned'.ret = "Ok" =>
            /\ returned'.buffer.pts # ClockTimeNone
            /\ returned'.buffer.pts =
                   MulDivFloor(SECOND, timestamp_data[elem[t]].offset,
                               AudioRate)]_vars

\* C9: sample_offset is zero when start returns, grows by the 1000 samples
\* of the buffer with every successful create, is left alone by a failed
\* create, and never decreases.
C9_SampleOffsetAdvances ==
    [][\A t \in Threads :
        LET e == elem[t] IN
        /\ timestamp_data'[e].offset >= timestamp_data[e].offset
        /\ Ends(t, "start_connect") => timestamp_data'[e].offset = 0
        /\ pc[t] = "create_state" /\ pc'[t] = "idle" =>
               timestamp_data'[e].offset = timestamp_data[e].offset
        /\ Ends(t, "create_frame") =>
               timestamp_data'[e].offset =
                   IF returned'.ret = "Ok"
                   THEN timestamp_data[e].offset + NoSamples
                   ELSE timestamp_data[e].offset]_vars

Holders(id) ==
    {e \in Elems : /\ lifecycle[e] \in {"started", "stopping"}
                   /\ settings[e].id_receiver = id}

\* C11: elements started with the same (stream_name, ip) get the same
\* receiver id; an entry's reference count is the number of elements
\* started on it and not yet stopped; the entry lives while that number is
\* positive and is removed exactly by the stop of the last such element.
C11_SharedReceiverIsCounted ==
    /\ [](\A id \in DOMAIN hashmap_receivers :
            /\ hashmap_receivers[id].reference_count > 0
            /\ hashmap_receivers[id].reference_count =
                   Cardinality(Holders(id)))
    /\ [](\A e \in Elems :
            lifecycle[e] \in {"started", "stopping"} =>
                settings[e].id_receiver \in DOMAIN hashmap_receivers)
    /\ [][\A t \in Threads :
            Ends(t, "start_connect") /\ returned'.ret = "Ok" =>
                LET e == elem[t]
                    same == Matching(settings[e].stream_name, settings[e].ip)
                IN  same # {} => settings'[e].id_receiver \in same]_vars
    /\ [][\A t \in Threads :
            Ends(t, "stop_ndi") =>
                LET id == settings[elem[t]].id_receiver IN
                id \in DOMAIN hashmap_receivers' <=>
                    hashmap_receivers[id].reference_count > 1]_vars

\* two elements share one receiver
C11_Witness ==
    \E id \in DOMAIN hashmap_receivers :
        /\ hashmap_receivers[id].reference_count = 2
        /\ Cardinality(Holders(id)) = 2

(***************************************************************************)
(* A host that calls stop on an element that is already stopped.  The base *)
(* class does not; the method itself accepts the call.                     *)
(***************************************************************************)
\* stop is called again, with no start since the last stop or failed start
StopAgainBegin(t, e) ==
    /\ Call(t, e)
    /\ lifecycle[e] = "stopped"
    /\ lifecycle' = [lifecycle EXCEPT ![e] = "stopping_again"]
    /\ Goto(t, e, "stop_state", {}, NoLocal, <<>>)
    /\ UNCHANGED <<elementVars, hashmap_receivers, fixated>>

NextStopAgain ==
    \/ Next
    \/ \E t \in Threads, e \in Elems : StopAgainBegin(t, e)

SpecStopAgain == Init /\ [][NextStopAgain]_vars

\* C12: stop always returns success, and a stop that is called again with
\* no successful start in between leaves every registry entry and its
\* reference count as they were.
C12_RepeatedStopReleasesNothing ==
    /\ [](returned.op = "stop" => returned.ret = "Ok")
    /\ [][\A t \in Threads :
            Ends(t, "stop_ndi") /\ lifecycle[elem[t]] = "stopping_again" =>
                hashmap_receivers' = hashmap_receivers]_vars

\* C13: change_state(PausedToPlaying) replaces the entry's initial_timestamp
\* by the captured frame's timestamp exactly when the stored value is unset
\* (0) or the frame's timestamp is not later than it, and keeps it otherwise.
C13_BaselineFollowsEarlierFrame ==
    [][\A t \in Threads :
        Ends(t, "change_state_frame") =>
            LET id == local[t].fs
                stored == hashmap_receivers[id].initial_timestamp
                timestamp == local[t].timestamp IN
            hashmap_receivers'[id].initial_timestamp =
                IF stored = 0 \/ timestamp <= stored THEN timestamp
                ELSE stored]_vars

(***************************************************************************)
(* A host that configures the elements: every property, with values on    *)
(* both sides of the declared ranges.                                      *)
(***************************************************************************)
StreamNameInputs == {DefaultStreamName, "Cam1"}
IpInputs == {DefaultIp, "127.0.0.1:5961"}
LossThresholdInputs ==
    {MinLossThreshold, DefaultLossThreshold, MaxLossThreshold,
     MaxLossThreshold + 1}

NextSetProperty ==
    \E t \in Threads, e \in Elems :
    \/ \E value \in StreamNameInputs : SetProperty(t, e, "stream_name", value)
    \/ \E value \in IpInputs : SetProperty(t, e, "ip", value)
    \/ \E value \in LossThresholdInputs : SetLossThresholdTo(t, e, value)

SpecSetProperty == Init /\ [][NextSetProperty]_vars

\* C14: settings.loss_threshold is always within 0..60; setting
\* loss-threshold to a value outside that range is rejected and changes
\* nothing, and setting it to a value inside stores exactly that value.
C14_LossThresholdInRange ==
    /\ [](\A e \in Elems : settings[e].loss_threshold \in 0..60)
    /\ [][returned'.op = "set_property"
            /\ returned'.log[1][1] = "loss_threshold" =>
            LET value == returned'.log[1][2] IN
            IF value \in 0..60
            THEN /\ returned'.ret = "Ok"
                 /\ \E e \in Elems :
                     settings' = [settings EXCEPT ![e].loss_threshold = value]
            ELSE /\ returned'.ret = "Rejected"
                 /\ settings' = settings]_vars

\* a loss-threshold of 61 has been refused after one of 60 was stored
C14_Witness ==
    /\ returned.op = "set_property"
    /\ returned.ret = "Rejected"
    /\ returned.log = <<<<"loss_threshold", 61>>>>
    /\ \E e \in Elems : settings[e].loss_threshold = 60

\* C15: the negotiated format is empty when start returns, whatever it
\* returns, and when stop returns; only a set_caps that succeeds makes it
\* non-empty, and a set_caps that cannot parse its caps leaves it as it was.
C15_FormatSetOnlyBySetCaps ==
    [][/\ \A t \in Threads :
            Ends(t, "start_connect") \/ Ends(t, "stop_ndi") =>
                state'[elem[t]].info = None
       /\ \A e \in Elems :
            state'[e].info # state[e].info /\ state'[e].info # None =>
                returned'.op = "set_caps" /\ returned'.ret = "Ok"
       /\ returned'.op = "set_caps" /\ returned'.ret = "Err" =>
            state' = state]_vars

\* a set_caps has failed on caps that are not audio, beside a format that
\* an earlier set_caps stored
C15_Witness ==
    /\ returned.op = "set_caps"
    /\ returned.ret = "Err"
    /\ \E e \in Elems : state[e].info # None

\* C16: a capture that brings no audio is no error of create: the only
\* error create returns is NotNegotiated, which it returns before any
\* capture, and a create that got through its capture and release returns
\* Ok whether the capture brought audio or not.  (An unwrap() that panics
\* is not a return of create.)
C16_MissingFrameIsNoError ==
    returned.op = "create" =>
        /\ returned.ret \in {"Ok", "NotNegotiated", "Panic"}
        /\ returned.ret = "NotNegotiated" =>
               Count(returned.log, "capture_audio") = 0
        /\ Count(returned.log, "free_audio") = 1 => returned.ret = "Ok"

\* a create has returned a buffer after a capture that brought no audio
C16_Witness ==
    /\ returned.op = "create"
    /\ returned.ret = "Ok"
    /\ returned.log = <<LookedUp, CapturedNothing, Freed>>

\* thread t stands at the registry lookup of its method
AtLookup(t) ==
    pc[t] \in {"change_state_settings", "fixate_settings", "create_registry"}

\* C17: when change_state(PausedToPlaying), fixate or create looks
\* settings.id_receiver up in the registry, the id is not 0 and its entry is
\* there: the lookup succeeds and the method goes on to its capture.
C17_LookupFindsReceiver ==
    [][\A t \in Threads :
        AtLookup(t) /\ pc'[t] # pc[t] =>
            LET id == settings[elem[t]].id_receiver IN
            /\ id # 0
            /\ id \in DOMAIN hashmap_receivers
            /\ hashmap_receivers[id].reference_count > 0
            /\ InCapture(t)'
            /\ local'[t].fs = id]_vars

\* a method is in its capture on the receiver of its element while the
\* other element, which shared that receiver, has been stopped
C17_Witness ==
    \E t \in Threads, e \in Elems :
        /\ InCapture(t)
        /\ local[t].fs = settings[elem[t]].id_receiver
        /\ e # elem[t]
        /\ lifecycle[e] = "stopped"
        /\ settings[e].id_receiver = local[t].fs

\* C18: whenever the negotiated format is non-empty, settings.latency holds
\* the latency fixate stored, floor(SECOND * 1000 / 48000); a latency query
\* answers with it when a format is negotiated and answers false when none
\* is, and never finds a format without a latency.
C18_FormatHasLatency ==
    /\ [](\A e \in Elems :
            state[e].info # None =>
                /\ settings[e].latency # ClockTimeNone
                /\ settings[e].latency =
                       MulDivFloor(SECOND, NoSamples, AudioRate))
    /\ [](returned.op = "query" => returned.ret # "Panic")
    /\ [][\A t \in Threads :
            Ends(t, "query_state") =>
                LET e == elem[t] IN
                IF state[e].info # None
                THEN /\ returned'.ret = "true"
                     /\ returned'.log = <<<<"latency", settings[e].latency>>>>
                ELSE returned'.ret = "false"]_vars

\* a latency query has been answered with the latency of a negotiated
\* element
C18_Witness ==
    /\ returned.op = "query"
    /\ returned.ret = "true"
    /\ returned.log = <<<<"latency", 20833333>>>>

====
